---- MODULE Spec2Model ----
(***************************************************************************)
(* Model of context_wiki_mirror.py: the crawl orchestrator (async_main),   *)
(* its task groups, the exception-containment decorators, the paginated    *)
(* listing of the wiki client and the outcome evaluator of main().         *)
(*                                                                         *)
(* Strings are sequences of one-character strings.  The event loop is one  *)
(* thread: a task step runs from one await to the next without another     *)
(* task in between.  The default executor's worker threads run truly       *)
(* concurrently with the loop thread and with each other.                  *)
(***************************************************************************)
EXTENDS Integers, Sequences, FiniteSets, TLC

VARIABLES
    pc,                          \* position of main()/async_main()
    exitStatus,                  \* status handed to exit(), -1 while running
    exitVia,                     \* how the run ends
    redirects,                   \* global redirects: dict[str, str]
    suppressed_exceptions_count, \* global counter
    processed_pages_count,       \* global counter
    task,                        \* state of every task of the two task groups
    job,                         \* state of every run_in_executor job
    jobReg,                      \* value a worker loaded for its pending += 1
    loopInc,                     \* value the loop thread loaded for its pending += 1
    last_continue,               \* api_query_list: last_continue
    files,                       \* files present under output_path
    faults,                      \* number of application exceptions injected so far
    tableAtBarrier,              \* history: redirects when Phase A's group was left
    pageSaw,                     \* history: the redirects each page task read
    session,                     \* what _login got from the wiki, None before it
    lstServer,                   \* listing harness: the server's responses
    lstParams,                   \* listing harness: the caller's params
    lstSent,                     \* listing harness: requests sent so far
    lstBuf,                      \* listing harness: results not yet yielded
    lstYielded,                  \* listing harness: records yielded so far
    lstPc,                       \* listing harness: position in api_query_list
    callArg,                     \* function harness: the argument of the call
    callRet                      \* function harness: what the call returned

runVars == <<pc, exitStatus, exitVia, redirects, suppressed_exceptions_count,
             processed_pages_count, task, job, jobReg, loopInc, files, faults,
             tableAtBarrier, pageSaw, session>>
lstVars == <<lstServer, lstParams, lstSent, lstBuf, lstYielded, lstPc>>
callVars == <<callArg, callRet>>
vars == <<runVars, last_continue, lstVars, callVars>>

-----------------------------------------------------------------------------
(* Bounds of the model *)

NumRedirects == 2   \* redirect pages on the wiki
NumPages == 2       \* content pages on the wiki
MaxFaults == 3      \* application exceptions injected in one run
OutcomeMargin == 5  \* counter values around the thresholds given to the evaluator
MaxResponses == 3   \* responses of one paginated listing

-----------------------------------------------------------------------------
(* Program constants *)

MAX_EXCEPTIONS_FOR_SUCCESS == 100
MIN_PAGES_FOR_SUCCESS == 1000
STATUS_ERROR == 1
STATUS_OK == 0
\* What the interpreter exits with when an exception leaves main() uncaught.
STATUS_UNCAUGHT == 1
\* What ArgumentParser.error() exits with.
STATUS_USAGE == 2

\* An optional value: None, or Some(x) holding x.
None == <<>>
Some(x) == <<x>>
Value(o) == o[1]
EmptyDict == [k \in {} |-> ""]

-----------------------------------------------------------------------------
(* Strings *)

HexDigits == {"0", "1", "2", "3", "4", "5", "6", "7", "8", "9",
              "A", "B", "C", "D", "E", "F", "a", "b", "c", "d", "e", "f"}

\* The character a %XX escape stands for; escapes outside this table decode
\* to some character that is none of the ones the program looks at.
HexChar(a, b) ==
    CASE <<a, b>> = <<"2", "0">> -> " "
      [] <<a, b>> = <<"2", "5">> -> "%"
      [] <<a, b>> \in {<<"2", "F">>, <<"2", "f">>} -> "/"
      [] <<a, b>> \in {<<"2", "E">>, <<"2", "e">>} -> "."
      [] <<a, b>> \in {<<"5", "F">>, <<"5", "f">>} -> "_"
      [] OTHER -> "?"

\* urllib.parse.unquote: one left-to-right pass, decoded text is not rescanned.
RECURSIVE url_decode(_)
url_decode(s) ==
    IF s = <<>> THEN <<>>
    ELSE IF s[1] = "%" /\ Len(s) >= 3 /\ s[2] \in HexDigits /\ s[3] \in HexDigits
         THEN <<HexChar(s[2], s[3])>> \o url_decode(SubSeq(s, 4, Len(s)))
         ELSE <<s[1]>> \o url_decode(Tail(s))

\* str.replace(" ", "_")
ReplaceSpaces(s) == [i \in 1..Len(s) |-> IF s[i] = " " THEN "_" ELSE s[i]]

normalize_file_name(name) == ReplaceSpaces(url_decode(name))

-----------------------------------------------------------------------------
(* Dictionaries and the paginated listing *)

\* {**a, **b}
Merge(a, b) ==
    [k \in DOMAIN a \cup DOMAIN b |-> IF k \in DOMAIN b THEN b[k] ELSE a[k]]

ApiParams == [assertuser |-> "user", format |-> "json", formatversion |-> "2"]

\* A listing that sends the caller's query again without the token.
QueryRequestWithoutToken(params, lastc) ==
    Merge(Merge([action |-> "query"], params), ApiParams)

\* The params of the request api_query_list sends.
QueryRequest(params, lastc) ==
    Merge(Merge(Merge([action |-> "query"], params), Value(lastc)), ApiParams)

\* json.get("continue", None)
NextContinue(response) == response.cont

\* The loop of api_query_list goes round again unless last_continue is None.
ListingDone(lastc) == lastc = None

\* list_pages(wiki, redirects)
ListPagesParams(which) ==
    [list |-> "allpages", aplimit |-> "max",
     apfilterredir |-> IF which = "no" THEN "nonredirects" ELSE "redirects"]

-----------------------------------------------------------------------------
(* Paths and image URLs *)

Digits == {"0", "1", "2", "3", "4", "5", "6", "7", "8", "9"}

\* Index of the first "/" of s at or after i, Len(s) + 1 when there is none.
RECURSIVE NextSlash(_, _)
NextSlash(s, i) ==
    IF i > Len(s) THEN Len(s) + 1
    ELSE IF s[i] = "/" THEN i ELSE NextSlash(s, i + 1)

\* Index of the first non-digit of s at or after i, Len(s) + 1 when there is none.
RECURSIVE DigitsEnd(_, _)
DigitsEnd(s, i) ==
    IF i > Len(s) THEN Len(s) + 1
    ELSE IF s[i] \in Digits THEN DigitsEnd(s, i + 1) ELSE i

\* Last index of the match of (?<=/)([^/]+)/\d+px-\1 that starts at i, 0 when
\* the pattern does not match there.
ThumbEnd(s, i) ==
    LET j == NextSlash(s, i)
        k == DigitsEnd(s, j + 1)
        n == j - i
    IN  IF /\ i > 1 /\ s[i - 1] = "/"
           /\ j <= Len(s) /\ n >= 1
           /\ k > j + 1
           /\ k + 2 + n <= Len(s)
           /\ SubSeq(s, k, k + 2) = <<"p", "x", "-">>
           /\ SubSeq(s, k + 3, k + 2 + n) = SubSeq(s, i, j - 1)
        THEN k + 2 + n
        ELSE 0

\* regex_replace(r"(?<=/)([^/]+)/\d+px-\1", r"\1", s), scanning from index i.
RECURSIVE SubThumb(_, _)
SubThumb(s, i) ==
    IF i > Len(s) THEN <<>>
    ELSE LET e == ThumbEnd(s, i)
         IN  IF e > 0
             THEN SubSeq(s, i, NextSlash(s, i) - 1) \o SubThumb(s, e + 1)
             ELSE <<s[i]>> \o SubThumb(s, i + 1)

EndsWith(s, t) ==
    Len(s) >= Len(t) /\ SubSeq(s, Len(s) - Len(t) + 1, Len(s)) = t

\* regex_replace(r"\.[^.]{3,4}$", ".webp", s)
SubExtension(s) ==
    LET n == Len(s)
        NoDot(a, b) == \A x \in a..b : s[x] # "."
        At(d) == d >= 1 /\ s[d] = "." /\ NoDot(d + 1, n)
    IN  IF n >= 5 /\ At(n - 4) THEN SubSeq(s, 1, n - 5) \o <<".", "w", "e", "b", "p">>
        ELSE IF n >= 4 /\ At(n - 3) THEN SubSeq(s, 1, n - 4) \o <<".", "w", "e", "b", "p">>
        ELSE s

normalize_image_url(url) ==
    LET u == SubThumb(normalize_file_name(url), 1)
    IN  IF EndsWith(u, <<".", "i", "c", "o">>) THEN u ELSE SubExtension(u)

\* Index of the last occurrence of c in s, 0 when there is none.
RECURSIVE LastIndex(_, _)
LastIndex(s, c) ==
    IF s = <<>> THEN 0
    ELSE IF s[Len(s)] = c THEN Len(s) ELSE LastIndex(SubSeq(s, 1, Len(s) - 1), c)

\* PurePath.suffix of a path: the last dot of the final component and what
\* follows it, when that dot is neither the first nor the last character of
\* the component.
PathSuffix(path) ==
    LET name == SubSeq(path, LastIndex(path, "/") + 1, Len(path))
        i == LastIndex(name, ".")
    IN  IF 1 < i /\ i < Len(name) THEN SubSeq(name, i, Len(name)) ELSE <<>>

\* PurePath.with_suffix(".html")
WithSuffixHtml(path) ==
    SubSeq(path, 1, Len(path) - Len(PathSuffix(path))) \o <<".", "h", "t", "m", "l">>

\* lstrip("/")
RECURSIVE LStripSlash(_)
LStripSlash(s) ==
    IF s # <<>> /\ s[1] = "/" THEN LStripSlash(Tail(s)) ELSE s

-----------------------------------------------------------------------------
(* The wiki the run mirrors *)

RedirectIds == 1..NumRedirects
PageIds == 1..NumPages

\* The title of redirect page r: "R 1", "R 2", ...
RedirectTitle(r) == <<"R", " ", ToString(r)>>

\* The title of content page p: the home page "Main Page", then "P2", "P3", ...
PageTitle(p) ==
    IF p = 1 THEN <<"M", "a", "i", "n", " ", "P", "a", "g", "e">>
    ELSE <<"P", ToString(p)>>

\* The titles in the "links" of redirect page r, in the server's order.
RedirectLinks(r) ==
    IF r % 2 = 1 THEN <<PageTitle(1)>> ELSE <<PageTitle(2), PageTitle(1)>>

\* The src of the img elements of content page p, in document order: every
\* page shows the same image.
PageImages(p) == << <<"/", "i", "/", "a", ".", "p", "n", "g">> >>

\* The answer of the wiki to a list=allpages request: one page per response.
AllPagesResponse(request) ==
    LET n == IF request.apfilterredir = "redirects" THEN NumRedirects ELSE NumPages
        i == IF "apcontinue" \in DOMAIN request
             THEN CHOOSE x \in 1..n : ToString(x) = request.apcontinue
             ELSE 1
    IN  [results |-> << [pageid |-> i] >>,
         cont |-> IF i < n
                  THEN Some([apcontinue |-> ToString(i + 1), continue |-> "-||"])
                  ELSE None]

-----------------------------------------------------------------------------
(* Tasks *)

StyleTask == <<"style", 0, 0>>
FaviconTask == <<"image", 0, 1>>
RedirectTask(r) == <<"redirect", r, 0>>
PageTask(p) == <<"page", p, 0>>
ImageTask(p, k) == <<"image", p, k>>

RedirectTasks == {RedirectTask(r) : r \in RedirectIds}
PageTasks == {PageTask(p) : p \in PageIds}
ImageTasks == UNION {{ImageTask(p, k) : k \in 1..Len(PageImages(p))} : p \in PageIds}
DownloadTasks == {FaviconTask} \cup ImageTasks

\* The tasks created in the first and in the second TaskGroup of async_main.
GroupA == {StyleTask, FaviconTask} \cup RedirectTasks
GroupB == PageTasks \cup ImageTasks
Tasks == GroupA \cup GroupB

\* The url argument of a download_image task.
DownloadUrl(d) ==
    IF d = FaviconTask
    THEN <<"f", "a", "v", "i", "c", "o", "n", ".", "i", "c", "o">>
    ELSE LStripSlash(PageImages(d[2])[d[3]])

\* output_file of download_image, relative to output_path.
DownloadFile(d) == normalize_image_url(DownloadUrl(d))

\* page_url of process_page.
PageUrl(p) == WithSuffixHtml(<<"/">> \o normalize_file_name(PageTitle(p)))

\* output_file of process_page, relative to output_path.
PageFile(p) == Tail(PageUrl(p))

STYLE_FILE == <<"s", "t", "y", "l", "e", ".", "c", "s", "s">>
MAIN_PAGE_FILE ==
    <<"M", "a", "i", "n", "_", "P", "a", "g", "e", ".", "h", "t", "m", "l">>
INDEX_FILE == <<"i", "n", "d", "e", "x", ".", "h", "t", "m", "l">>
README_FILE == <<"R", "E", "A", "D", "M", "E", ".", "m", "d">>

Running == {"fetch", "links", "info", "html", "compress"}
Finished == {"done", "failed"}

-----------------------------------------------------------------------------
(* The run: main() and async_main() *)

ListingIdle ==
    /\ lstServer = <<>>
    /\ lstParams = EmptyDict
    /\ lstSent = <<>>
    /\ lstBuf = <<>>
    /\ lstYielded = <<>>
    /\ lstPc = "idle"

NoCall ==
    /\ callArg = None
    /\ callRet = None

Init ==
    /\ pc = "setup"
    /\ exitStatus = -1
    /\ exitVia = "none"
    /\ redirects = EmptyDict
    /\ suppressed_exceptions_count = 0
    /\ processed_pages_count = 0
    /\ task = [t \in Tasks |-> "none"]
    /\ job = [d \in DownloadTasks |-> "none"]
    /\ jobReg = [d \in DownloadTasks |-> 0]
    /\ loopInc = None
    /\ last_continue = Some(EmptyDict)
    /\ files = {README_FILE, INDEX_FILE}
    /\ faults = 0
    /\ tableAtBarrier = None
    /\ pageSaw = [p \in PageIds |-> None]
    /\ session = None
    /\ ListingIdle
    /\ NoCall

\* The loop thread is between two statements of a task, not inside a += 1.
LoopFree == loopInc = None

\* The items async_main keeps when it clears output_path.
Kept(f) == f = README_FILE

\* main() up to asyncio_run, and async_main up to the Wiki context manager.
Setup ==
    /\ pc = "setup"
    /\ \/ /\ pc' = "login"
          /\ files' = {f \in files : Kept(f)}
          /\ UNCHANGED <<exitStatus, exitVia>>
       \/ \* the credentials file lacks a username or a password: parser.error
          /\ pc' = "exited"
          /\ exitVia' = "usage"
          /\ exitStatus' = STATUS_USAGE
          /\ UNCHANGED files
       \/ \* no credentials file, output_path is no directory, no template
          /\ pc' = "exited"
          /\ exitVia' = "uncaught"
          /\ exitStatus' = STATUS_UNCAUGHT
          /\ UNCHANGED files
    /\ UNCHANGED <<redirects, suppressed_exceptions_count, processed_pages_count,
                   task, job, jobReg, loopInc, faults, tableAtBarrier, session, pageSaw,
                   last_continue, lstVars, callVars>>

\* A first task group in which nothing is created before the listing.
NoEntryTasks == {}

\* The tasks async_main creates on entering the first TaskGroup, before the
\* listing of the redirect pages: write_style and download_image of the
\* favicon.
EntryTasks == {StyleTask, FaviconTask}

\* What the wiki may answer to the two requests of _login: whether the
\* login token is a string, the result of action=login, and whether the
\* cookie jar then holds a session cookie.
LoginAnswers ==
    [token : BOOLEAN, result : {"Success", "Failed"}, cookie : BOOLEAN]

\* A _login that does not look at the cookie jar.
LoginSucceedsWithoutCookie(answer) ==
    answer.token /\ answer.result = "Success"

\* _login returns without raising ValueError.
LoginSucceeds(answer) ==
    /\ answer.token
    /\ answer.result = "Success"
    /\ answer.cookie

\* Wiki.__aenter__: _login; when it returns the first TaskGroup is entered,
\* write_style and download_image("favicon.ico") are created and the
\* listing of the redirect pages starts.  When _login raises, the
\* ValueError leaves async_main and main().
Login ==
    /\ pc = "login"
    /\ \E answer \in LoginAnswers :
          /\ session' = Some(answer)
          /\ IF LoginSucceeds(answer)
             THEN /\ pc' = "listA"
                  /\ task' = [t \in Tasks |->
                                 IF t \in EntryTasks THEN "fetch" ELSE task[t]]
                  /\ last_continue' = Some(EmptyDict)
                  /\ UNCHANGED <<exitStatus, exitVia>>
             ELSE /\ pc' = "exited"
                  /\ exitVia' = "uncaught"
                  /\ exitStatus' = STATUS_UNCAUGHT
                  /\ UNCHANGED <<task, last_continue>>
    /\ UNCHANGED <<redirects, suppressed_exceptions_count, processed_pages_count,
                   job, jobReg, loopInc, files, faults, tableAtBarrier, pageSaw,
                   lstVars, callVars>>

\* A request of _login fails in the transport (raise_for_status, timeout).
LoginFails ==
    /\ pc = "login"
    /\ pc' = "exited"
    /\ exitVia' = "uncaught"
    /\ exitStatus' = STATUS_UNCAUGHT
    /\ UNCHANGED <<redirects, suppressed_exceptions_count, processed_pages_count,
                   task, job, jobReg, loopInc, files, faults, tableAtBarrier,
                   session, pageSaw, last_continue, lstVars, callVars>>

\* A task group that leaves its unfinished tasks running when it is aborted.
AbortedTaskLeftRunning(st) == st

\* TaskGroup._abort and the cancellation of a pending executor future: a
\* task that has not finished is cancelled at its await, a queued job is
\* dropped, a job a worker is already running goes on.
AbortedTask(st) == IF st \in Running THEN "cancelled" ELSE st
AbortedJob(st) == IF st = "queued" THEN "dropped" ELSE st

\* An exception leaves the body of a task group: the group is aborted and
\* the exception travels on to main().
Abort(via) ==
    /\ pc' = "unwind"
    /\ exitVia' = via
    /\ task' = [t \in Tasks |-> AbortedTask(task[t])]
    /\ job' = [d \in DownloadTasks |-> AbortedJob(job[d])]
    /\ UNCHANGED <<exitStatus, redirects, suppressed_exceptions_count,
                   processed_pages_count, jobReg, loopInc, files, faults,
                   tableAtBarrier, session, pageSaw, last_continue, lstVars, callVars>>

\* A wrapper that lets the exception through: it reaches the task group,
\* which is aborted, and then main().
ContainLeaks(t, spawned, saw) ==
    /\ faults < MaxFaults
    /\ faults' = faults + 1
    /\ task' = [x \in Tasks |->
                   IF x = t THEN "failed"
                   ELSE IF x \in spawned THEN "cancelled"
                   ELSE AbortedTask(task[x])]
    /\ job' = [d \in DownloadTasks |-> AbortedJob(job[d])]
    /\ pageSaw' = saw
    /\ pc' = "unwind"
    /\ exitVia' = "uncaught"
    /\ UNCHANGED <<exitStatus, redirects, suppressed_exceptions_count,
                   processed_pages_count, jobReg, loopInc, files,
                   tableAtBarrier, session, last_continue, lstVars, callVars>>

\* An exception is raised in task t, which by then has created the tasks
\* `spawned` and left `saw` in pageSaw: the except branch of the wrapper of
\* async_without_exceptions is entered, the task ends, and the loop thread
\* loads the counter ...
Contain(t, spawned, saw) ==
    /\ faults < MaxFaults
    /\ faults' = faults + 1
    /\ task' = [x \in Tasks |->
                   IF x = t THEN "failed"
                   ELSE IF x \in spawned THEN "fetch"
                   ELSE task[x]]
    /\ pageSaw' = saw
    /\ loopInc' = Some([who |-> t, loaded |-> suppressed_exceptions_count])
    /\ UNCHANGED <<pc, exitStatus, exitVia, redirects, suppressed_exceptions_count,
                   processed_pages_count, job, jobReg, files, tableAtBarrier, session,
                   last_continue, lstVars, callVars>>

\* ... and stores the sum.
AsyncIncremented(loaded) == loaded + 1

AsyncWrapperStore ==
    /\ loopInc # None
    /\ suppressed_exceptions_count' = AsyncIncremented(Value(loopInc).loaded)
    /\ loopInc' = None
    /\ UNCHANGED <<pc, exitStatus, exitVia, redirects, processed_pages_count,
                   task, job, jobReg, files, faults, tableAtBarrier, session, pageSaw,
                   last_continue, lstVars, callVars>>

\* A list_pages that ignores its redirects argument.
ListedTasksOfRedirects(which, response) ==
    {RedirectTask(response.results[i].pageid) : i \in 1..Len(response.results)}

\* One round of the loop of api_query_list inside "async for page in
\* list_pages(...)": the response arrives, a task is created for each of its
\* results, and the next request is sent unless the token was omitted.
ListedTasks(which, response) ==
    {IF which = "only" THEN RedirectTask(response.results[i].pageid)
                       ELSE PageTask(response.results[i].pageid) :
        i \in 1..Len(response.results)}

FirstAwait(t) == IF t[1] = "redirect" THEN "links" ELSE "info"

ListRound(which, here, next) ==
    /\ pc = here
    /\ LoopFree
    /\ LET response == AllPagesResponse(
                           QueryRequest(ListPagesParams(which), last_continue))
           spawned == ListedTasks(which, response)
       IN  /\ task' = [t \in Tasks |->
                          IF t \in spawned THEN FirstAwait(t) ELSE task[t]]
           /\ last_continue' = NextContinue(response)
           /\ pc' = IF ListingDone(NextContinue(response)) THEN next ELSE here
    /\ UNCHANGED <<exitStatus, exitVia, redirects, suppressed_exceptions_count,
                   processed_pages_count, job, jobReg, loopInc, files, faults,
                   tableAtBarrier, session, pageSaw, lstVars, callVars>>

ListRedirects == ListRound("only", "listA", "waitA")
ListContent == ListRound("no", "listB", "waitB")

\* The request of api_query_list fails (raise_for_status, a timeout, bad
\* JSON): the exception is raised in the body of the task group.
ListFails ==
    /\ pc \in {"listA", "listB"}
    /\ LoopFree
    /\ Abort("uncaught")

\* The event loop runs the tasks while async_main is inside a task group.
LoopRunning == pc \in {"listA", "waitA", "listB", "waitB"}

(* write_style *)

StyleDone ==
    /\ LoopRunning /\ LoopFree
    /\ task[StyleTask] = "fetch"
    /\ task' = [task EXCEPT ![StyleTask] = "done"]
    /\ files' = files \cup {STYLE_FILE}
    /\ UNCHANGED <<pc, exitStatus, exitVia, redirects, suppressed_exceptions_count,
                   processed_pages_count, job, jobReg, loopInc, faults,
                   tableAtBarrier, session, pageSaw, last_continue, lstVars, callVars>>

StyleFails ==
    /\ LoopRunning /\ LoopFree
    /\ task[StyleTask] = "fetch"
    /\ Contain(StyleTask, {}, pageSaw)

(* get_redirects *)

\* for link in response["links"]: redirects[key] = normalize_file_name(link["title"])
RECURSIVE StoreLinks(_, _, _)
StoreLinks(table, key, links) ==
    IF links = <<>> THEN table
    ELSE StoreLinks([k \in DOMAIN table \cup {key} |->
                        IF k = key THEN normalize_file_name(Head(links)) ELSE table[k]],
                    key, Tail(links))

RedirectDone(r) ==
    /\ LoopRunning /\ LoopFree
    /\ task[RedirectTask(r)] = "links"
    /\ task' = [task EXCEPT ![RedirectTask(r)] = "done"]
    /\ redirects' = StoreLinks(redirects, normalize_file_name(RedirectTitle(r)),
                               RedirectLinks(r))
    /\ UNCHANGED <<pc, exitStatus, exitVia, suppressed_exceptions_count,
                   processed_pages_count, job, jobReg, loopInc, files, faults,
                   tableAtBarrier, session, pageSaw, last_continue, lstVars, callVars>>

RedirectFails(r) ==
    /\ LoopRunning /\ LoopFree
    /\ task[RedirectTask(r)] = "links"
    /\ Contain(RedirectTask(r), {}, pageSaw)

(* download_image and compress_image *)

Lower(c) ==
    CASE c = "I" -> "i" [] c = "C" -> "c" [] c = "O" -> "o" [] OTHER -> c

\* path.suffix.lower() == ".ico"
IsIco(path) ==
    LET x == PathSuffix(path)
    IN  [i \in 1..Len(x) |-> Lower(x[i])] = <<".", "i", "c", "o">>

\* The bytes are read and written to output_file; compress_image is handed
\* to the executor and the task awaits it.
DownloadWritten(d) ==
    /\ LoopRunning /\ LoopFree
    /\ task[d] = "fetch"
    /\ task' = [task EXCEPT ![d] = "compress"]
    /\ files' = files \cup {DownloadFile(d)}
    /\ job' = [job EXCEPT ![d] = "queued"]
    /\ UNCHANGED <<pc, exitStatus, exitVia, redirects, suppressed_exceptions_count,
                   processed_pages_count, jobReg, loopInc, faults, tableAtBarrier, session,
                   pageSaw, last_continue, lstVars, callVars>>

DownloadFails(d) ==
    /\ LoopRunning /\ LoopFree
    /\ task[d] = "fetch"
    /\ Contain(d, {}, pageSaw)

\* A worker thread of the executor takes the job.
JobStarts(d) ==
    /\ job[d] = "queued"
    /\ job' = [job EXCEPT ![d] = "running"]
    /\ UNCHANGED <<pc, exitStatus, exitVia, redirects, suppressed_exceptions_count,
                   processed_pages_count, task, jobReg, loopInc, files, faults,
                   tableAtBarrier, session, pageSaw, last_continue, lstVars, callVars>>

\* compress_image returns: at once for an .ico, else after webpsave has
\* overwritten the file in place.
JobDone(d) ==
    /\ job[d] = "running"
    /\ job' = [job EXCEPT ![d] = "finished"]
    /\ UNCHANGED <<pc, exitStatus, exitVia, redirects, suppressed_exceptions_count,
                   processed_pages_count, task, jobReg, loopInc, files, faults,
                   tableAtBarrier, session, pageSaw, last_continue, lstVars, callVars>>

\* wrapper of sync_without_exceptions, except branch, on the worker thread:
\* the worker loads the counter ...
JobRaises(d) ==
    /\ job[d] = "running"
    /\ ~IsIco(DownloadFile(d))
    /\ faults < MaxFaults
    /\ faults' = faults + 1
    /\ job' = [job EXCEPT ![d] = "loaded"]
    /\ jobReg' = [jobReg EXCEPT ![d] = suppressed_exceptions_count]
    /\ UNCHANGED <<pc, exitStatus, exitVia, redirects, suppressed_exceptions_count,
                   processed_pages_count, task, loopInc, files, tableAtBarrier, session,
                   pageSaw, last_continue, lstVars, callVars>>

\* ... and stores the sum.
SyncIncremented(loaded) == loaded + 1

SyncWrapperStore(d) ==
    /\ job[d] = "loaded"
    /\ suppressed_exceptions_count' = SyncIncremented(jobReg[d])
    /\ job' = [job EXCEPT ![d] = "failed"]
    /\ jobReg' = [jobReg EXCEPT ![d] = 0]
    /\ UNCHANGED <<pc, exitStatus, exitVia, redirects, processed_pages_count,
                   task, loopInc, files, faults, tableAtBarrier, session, pageSaw,
                   last_continue, lstVars, callVars>>

\* A download_image that hands compress_image to the executor and returns
\* without awaiting the future.
JobNotAwaited(st) == st = st

\* await run_in_executor(...): the future is done when compress_image has
\* returned on its worker thread, the wrapper of sync_without_exceptions
\* having swallowed what it raised.
JobAwaited(st) == st \in {"finished", "failed"}

\* The executor future is done: download_image resumes and returns.
DownloadDone(d) ==
    /\ LoopRunning /\ LoopFree
    /\ task[d] = "compress"
    /\ JobAwaited(job[d])
    /\ task' = [task EXCEPT ![d] = "done"]
    /\ UNCHANGED <<pc, exitStatus, exitVia, redirects, suppressed_exceptions_count,
                   processed_pages_count, job, jobReg, loopInc, files, faults,
                   tableAtBarrier, session, pageSaw, last_continue, lstVars, callVars>>

(* process_page *)

PageGotInfo(p) ==
    /\ LoopRunning /\ LoopFree
    /\ task[PageTask(p)] = "info"
    /\ task' = [task EXCEPT ![PageTask(p)] = "html"]
    /\ UNCHANGED <<pc, exitStatus, exitVia, redirects, suppressed_exceptions_count,
                   processed_pages_count, job, jobReg, loopInc, files, faults,
                   tableAtBarrier, session, pageSaw, last_continue, lstVars, callVars>>

\* The download_image tasks process_page has created once it has gone
\* through the first n img elements.
SpawnedImages(p, n) == {ImageTask(p, k) : k \in 1..n}

\* From the arrival of the page's HTML to the end of process_page there is
\* no await: template, parse, rewriting (which reads redirects), the
\* creation of the image tasks, the write and the count are one step.
PageDone(p) ==
    /\ LoopRunning /\ LoopFree
    /\ task[PageTask(p)] = "html"
    /\ pageSaw' = [pageSaw EXCEPT ![p] = Some(redirects)]
    /\ task' = [t \in Tasks |->
                   IF t = PageTask(p) THEN "done"
                   ELSE IF t \in SpawnedImages(p, Len(PageImages(p))) THEN "fetch"
                   ELSE task[t]]
    /\ files' = files \cup {PageFile(p)}
    /\ processed_pages_count' = processed_pages_count + 1
    /\ UNCHANGED <<pc, exitStatus, exitVia, redirects, suppressed_exceptions_count,
                   job, jobReg, loopInc, faults, tableAtBarrier, session, last_continue,
                   lstVars, callVars>>

\* One of the two requests of process_page fails.
PageFetchFails(p) ==
    /\ LoopRunning /\ LoopFree
    /\ task[PageTask(p)] \in {"info", "html"}
    /\ Contain(PageTask(p), {}, pageSaw)

\* process_page raises after its requests: after n image tasks were created
\* (n = all of them when prettify or the write raises).
PageRenderFails(p) ==
    /\ LoopRunning /\ LoopFree
    /\ task[PageTask(p)] = "html"
    /\ \E n \in 0..Len(PageImages(p)) :
          Contain(PageTask(p), SpawnedImages(p, n),
                  [pageSaw EXCEPT ![p] = Some(redirects)])

(* async_main: the ends of the task groups, the move, and main's verdict *)

\* A task group that is left without waiting for its tasks.
GroupLeftAtOnce(group) == group = group

\* TaskGroup.__aexit__ returns once every task created in the group is done.
GroupDone(group) == \A t \in group : task[t] \in {"none"} \cup Finished

LeaveGroupA ==
    /\ pc = "waitA"
    /\ LoopFree
    /\ GroupDone(GroupA)
    /\ pc' = "listB"
    /\ last_continue' = Some(EmptyDict)
    /\ tableAtBarrier' = Some(redirects)
    /\ UNCHANGED <<exitStatus, exitVia, redirects, suppressed_exceptions_count,
                   processed_pages_count, task, job, jobReg, loopInc, files,
                   faults, session, pageSaw, lstVars, callVars>>

LeaveGroupB ==
    /\ pc = "waitB"
    /\ LoopFree
    /\ GroupDone(GroupB)
    /\ pc' = "finalize"
    /\ UNCHANGED <<exitStatus, exitVia, redirects, suppressed_exceptions_count,
                   processed_pages_count, task, job, jobReg, loopInc, files,
                   faults, tableAtBarrier, session, pageSaw, last_continue, lstVars, callVars>>

\* move_file(output_path / "Main_Page.html", output_path / "index.html")
Finalize ==
    /\ pc = "finalize"
    /\ IF MAIN_PAGE_FILE \in files
       THEN /\ files' = (files \ {MAIN_PAGE_FILE}) \cup {INDEX_FILE}
            /\ pc' = "evaluate"
            /\ UNCHANGED <<exitStatus, exitVia>>
       ELSE \* FileNotFoundError leaves async_main and main()
            /\ pc' = "exited"
            /\ exitVia' = "uncaught"
            /\ exitStatus' = STATUS_UNCAUGHT
            /\ UNCHANGED files
    /\ UNCHANGED <<redirects, suppressed_exceptions_count, processed_pages_count,
                   task, job, jobReg, loopInc, faults, tableAtBarrier, session, pageSaw,
                   last_continue, lstVars, callVars>>

\* An evaluator whose page threshold is inclusive.
VerdictAtLeast(processed, suppressed) ==
    IF processed >= MIN_PAGES_FOR_SUCCESS /\ suppressed <= MAX_EXCEPTIONS_FOR_SUCCESS
    THEN STATUS_OK
    ELSE STATUS_ERROR

\* The if of main() after asyncio_run.
Verdict(processed, suppressed) ==
    IF processed > MIN_PAGES_FOR_SUCCESS /\ suppressed <= MAX_EXCEPTIONS_FOR_SUCCESS
    THEN STATUS_OK
    ELSE STATUS_ERROR

Evaluate ==
    /\ pc = "evaluate"
    /\ pc' = "exited"
    /\ exitVia' = "evaluator"
    /\ exitStatus' = Verdict(processed_pages_count, suppressed_exceptions_count)
    /\ UNCHANGED <<redirects, suppressed_exceptions_count, processed_pages_count,
                   task, job, jobReg, loopInc, files, faults, tableAtBarrier, session,
                   pageSaw, last_continue, lstVars, callVars>>

\* An interrupt arrives while asyncio_run is awaiting: the main task is
\* cancelled, CancelledError is raised in the body of the task group.
Cancel ==
    /\ pc \in {"login", "listA", "waitA", "listB", "waitB"}
    /\ LoopFree
    /\ Abort("cancelled")

\* A main() that gives a cancelled run a status of its own.
CancelledStatusOfItsOwn == STATUS_ERROR + 129

\* The except branch of main(): exit(STATUS_ERROR).
CancelledStatus == STATUS_ERROR

\* asyncio_run returns or raises once the executor's running jobs have
\* ended; main() exits.
ExitProcess ==
    /\ pc = "unwind"
    /\ \A d \in DownloadTasks : job[d] \notin {"running", "loaded"}
    /\ pc' = "exited"
    /\ exitStatus' = IF exitVia = "cancelled" THEN CancelledStatus
                                              ELSE STATUS_UNCAUGHT
    /\ UNCHANGED <<exitVia, redirects, suppressed_exceptions_count,
                   processed_pages_count, task, job, jobReg, loopInc, files,
                   faults, tableAtBarrier, session, pageSaw, last_continue, lstVars, callVars>>

Next ==
    \/ Setup
    \/ Login
    \/ LoginFails
    \/ ListRedirects
    \/ ListContent
    \/ ListFails
    \/ StyleDone
    \/ StyleFails
    \/ \E r \in RedirectIds : RedirectDone(r)
    \/ \E r \in RedirectIds : RedirectFails(r)
    \/ \E d \in DownloadTasks : DownloadWritten(d)
    \/ \E d \in DownloadTasks : DownloadFails(d)
    \/ \E d \in DownloadTasks : JobStarts(d)
    \/ \E d \in DownloadTasks : JobDone(d)
    \/ \E d \in DownloadTasks : JobRaises(d)
    \/ \E d \in DownloadTasks : SyncWrapperStore(d)
    \/ \E d \in DownloadTasks : DownloadDone(d)
    \/ \E p \in PageIds : PageGotInfo(p)
    \/ \E p \in PageIds : PageDone(p)
    \/ \E p \in PageIds : PageFetchFails(p)
    \/ \E p \in PageIds : PageRenderFails(p)
    \/ AsyncWrapperStore
    \/ LeaveGroupA
    \/ LeaveGroupB
    \/ Finalize
    \/ Evaluate
    \/ Cancel
    \/ ExitProcess

Spec == Init /\ [][Next]_vars

-----------------------------------------------------------------------------
(* The outcome evaluator on counter values around its thresholds *)

InitOutcome ==
    /\ pc = "evaluate"
    /\ exitStatus = -1
    /\ exitVia = "none"
    /\ redirects = EmptyDict
    /\ suppressed_exceptions_count \in
          (MAX_EXCEPTIONS_FOR_SUCCESS - OutcomeMargin) ..
          (MAX_EXCEPTIONS_FOR_SUCCESS + OutcomeMargin)
    /\ processed_pages_count \in
          (MIN_PAGES_FOR_SUCCESS - OutcomeMargin) ..
          (MIN_PAGES_FOR_SUCCESS + OutcomeMargin)
    /\ task = [t \in Tasks |-> "none"]
    /\ job = [d \in DownloadTasks |-> "none"]
    /\ jobReg = [d \in DownloadTasks |-> 0]
    /\ loopInc = None
    /\ last_continue = None
    /\ files = {README_FILE, INDEX_FILE}
    /\ faults = 0
    /\ tableAtBarrier = None
    /\ pageSaw = [p \in PageIds |-> None]
    /\ session = None
    /\ ListingIdle
    /\ NoCall

SpecOutcome == InitOutcome /\ [][Evaluate]_vars

-----------------------------------------------------------------------------
(* api_query_list against an arbitrary server *)

\* The results a response may carry.
Batches ==
    {<<>>, << [pageid |-> 1] >>, << [pageid |-> 2] >>,
     << [pageid |-> 1], [pageid |-> 2] >>, << [pageid |-> 2], [pageid |-> 1] >>,
     << [pageid |-> 1], [pageid |-> 1] >>}

\* The continuation token of the k-th response.
Token(k) == [apcontinue |-> ToString(k), continue |-> "-||"]

\* The sequences of 1..MaxResponses responses of which only the last omits
\* the token.
Servers ==
    UNION {{[k \in 1..n |-> [results |-> b[k],
                             cont |-> IF k < n THEN Some(Token(k)) ELSE None]] :
               b \in [1..n -> Batches]} : n \in 1..MaxResponses}

InitList ==
    /\ pc = "listing"
    /\ exitStatus = -1
    /\ exitVia = "none"
    /\ redirects = EmptyDict
    /\ suppressed_exceptions_count = 0
    /\ processed_pages_count = 0
    /\ task = [t \in Tasks |-> "none"]
    /\ job = [d \in DownloadTasks |-> "none"]
    /\ jobReg = [d \in DownloadTasks |-> 0]
    /\ loopInc = None
    /\ files = {}
    /\ faults = 0
    /\ tableAtBarrier = None
    /\ pageSaw = [p \in PageIds |-> None]
    /\ session = None
    /\ lstServer \in Servers
    /\ lstParams \in {ListPagesParams("no"), ListPagesParams("only")}
    /\ last_continue = Some(EmptyDict)
    /\ lstSent = <<>>
    /\ lstBuf = <<>>
    /\ lstYielded = <<>>
    /\ lstPc = "request"
    /\ NoCall

\* The request is sent and the k-th response read: results and last_continue
\* are taken from it.
LstRequest ==
    /\ lstPc = "request"
    /\ Len(lstSent) < Len(lstServer)
    /\ LET response == lstServer[Len(lstSent) + 1]
       IN  /\ lstSent' = Append(lstSent, QueryRequest(lstParams, last_continue))
           /\ lstBuf' = response.results
           /\ last_continue' = NextContinue(response)
    /\ lstPc' = "yield"
    /\ UNCHANGED <<runVars, callVars, lstServer, lstParams, lstYielded>>

\* for result in results: yield result
LstYield ==
    /\ lstPc = "yield"
    /\ lstBuf # <<>>
    /\ lstYielded' = Append(lstYielded, Head(lstBuf))
    /\ lstBuf' = Tail(lstBuf)
    /\ UNCHANGED <<runVars, callVars, last_continue, lstServer, lstParams, lstSent, lstPc>>

\* if last_continue is None: break
LstLoop ==
    /\ lstPc = "yield"
    /\ lstBuf = <<>>
    /\ lstPc' = IF ListingDone(last_continue) THEN "done" ELSE "request"
    /\ UNCHANGED <<runVars, callVars, last_continue, lstServer, lstParams, lstSent, lstBuf,
                   lstYielded>>

NextList == LstRequest \/ LstYield \/ LstLoop

SpecList == InitList /\ [][NextList]_vars

\* The event loop resumes a generator whose response has arrived.
SpecListFair == SpecList /\ WF_vars(NextList)

-----------------------------------------------------------------------------
(* Claims *)

PageStarted(p) == task[PageTask(p)] # "none" \/ pageSaw[p] # None
FailedTasks == {t \in Tasks : task[t] = "failed"}
FailedJobs == {d \in DownloadTasks : job[d] = "failed"}
DonePages == {p \in PageIds : task[PageTask(p)] = "done"}

\* C1: once any page-render task has been created (or has read the redirect
\* table), every redirect-resolution task that was created has ended, done
\* or with its failure contained and counted; none is still running and none
\* was cancelled.
C1_PhaseBarrier ==
    (\E p \in PageIds : PageStarted(p)) =>
        /\ \A r \in RedirectIds : task[RedirectTask(r)] \in {"none"} \cup Finished
        /\ tableAtBarrier # None

\* C1 witness: a page task is under way after one redirect task failed and
\* another one succeeded.
C1_Witness ==
    /\ \E p \in PageIds : task[PageTask(p)] = "html"
    /\ task[RedirectTask(1)] = "failed"
    /\ task[RedirectTask(2)] = "done"

\* C2: from the moment the first task group is left the redirect table is
\* the table of that moment, whatever page, image and recompression steps
\* follow, and every page task has read exactly that table.
C2_TableFrozen ==
    /\ tableAtBarrier # None => redirects = Value(tableAtBarrier)
    /\ \A p \in PageIds : pageSaw[p] # None => pageSaw[p] = tableAtBarrier

\* C2 witness: a page has read a non-empty table and its image has been
\* downloaded and recompressed.
C2_Witness ==
    /\ pageSaw[1] # None
    /\ DOMAIN Value(pageSaw[1]) # {}
    /\ job[ImageTask(1, 1)] = "finished"
    /\ task[ImageTask(1, 1)] = "done"

\* C3: the step that ends a failing page task raises
\* suppressed_exceptions_count by exactly one and leaves
\* processed_pages_count alone, and when the second task group has been left
\* every page task has ended, the ones that did not fail having been counted
\* once each in processed_pages_count.
C3_PageFailureCountedOnce ==
    /\ [][\A p \in PageIds :
            (/\ loopInc # None
             /\ Value(loopInc).who = PageTask(p)
             /\ loopInc' = None)
            => /\ suppressed_exceptions_count' = suppressed_exceptions_count + 1
               /\ processed_pages_count' = processed_pages_count]_vars
    /\ [](pc \in {"finalize", "evaluate"} =>
            /\ \A p \in PageIds : task[PageTask(p)] \in Finished
            /\ processed_pages_count = Cardinality(DonePages))

\* C4 as claimed: tasks are cancelled only by an external cancellation.
C4_OnlyCancellationAborts ==
    \A t \in Tasks : task[t] = "cancelled" => exitVia = "cancelled"

\* C4 amended: a step in which a task is cancelled, or in which async_main
\* leaves a task group before its end, is an external cancellation or a
\* failure of the enumeration request in the body of the group; no exception
\* raised inside a created task does that.
C4_OnlyBodyExceptionsAbort ==
    [][((\E t \in Tasks : task[t] # "cancelled" /\ task'[t] = "cancelled")
        \/ (pc # "unwind" /\ pc' = "unwind"))
       => (Cancel \/ ListFails)]_vars

\* C4 witness: the second task group was left at its end although a page
\* task failed; the other page task ran to its end.
C4_Witness ==
    /\ pc = "finalize"
    /\ task[PageTask(2)] = "failed"
    /\ task[PageTask(1)] = "done"
    /\ task[ImageTask(1, 1)] = "done"

\* C5: the evaluator exits with STATUS_OK exactly when more than 1000 pages
\* were processed and at most 100 exceptions suppressed, and with
\* STATUS_ERROR otherwise.
C5_Outcome ==
    exitVia = "evaluator" =>
        /\ exitStatus = STATUS_OK <=>
              (processed_pages_count > 1000 /\ suppressed_exceptions_count <= 100)
        /\ exitStatus # STATUS_OK => exitStatus = STATUS_ERROR
        /\ (processed_pages_count = 1001 /\ suppressed_exceptions_count = 100)
              => exitStatus = 0
        /\ (processed_pages_count = 1001 /\ suppressed_exceptions_count = 101)
              => exitStatus = 1
        /\ (processed_pages_count \in {999, 1000} /\ suppressed_exceptions_count = 0)
              => exitStatus = 1

\* C5 witness: 1001 pages and 100 exceptions were judged a success.
C5_Witness ==
    /\ exitVia = "evaluator"
    /\ processed_pages_count = 1001
    /\ suppressed_exceptions_count = 100
    /\ exitStatus = STATUS_OK

\* C6: a run in which both enumerations went through and every page task
\* has ended, and which was not cancelled, ends in the evaluator, with the
\* status the two counters give.
C6_VerdictFromCounters ==
    (/\ pc = "exited"
     /\ exitVia # "cancelled"
     /\ \A p \in PageIds : task[PageTask(p)] \in Finished)
    => /\ exitVia = "evaluator"
       /\ exitStatus = Verdict(processed_pages_count, suppressed_exceptions_count)

C8_NoLostIncrement ==
    pc = "evaluate" =>
        /\ suppressed_exceptions_count =
              Cardinality(FailedTasks) + Cardinality(FailedJobs)
        /\ processed_pages_count = Cardinality(DonePages)

RECURSIVE Flatten(_)
Flatten(responses) ==
    IF responses = <<>> THEN <<>>
    ELSE Head(responses).results \o Flatten(Tail(responses))

\* The k-th request carries the caller's query and, for k > 1, the token of
\* response k - 1.
RequestCarries(k) ==
    LET req == lstSent[k]
        tok == IF k = 1 THEN EmptyDict ELSE Value(lstServer[k - 1].cont)
    IN  /\ req.action = "query"
        /\ \A key \in DOMAIN lstParams : req[key] = lstParams[key]
        /\ \A key \in DOMAIN tok : key \in DOMAIN req /\ req[key] = tok[key]
        /\ \A key \in DOMAIN req \ DOMAIN tok :
              key \in DOMAIN lstSent[1] /\ req[key] = lstSent[1][key]
        /\ k = 1 => DOMAIN req \cap DOMAIN Token(1) = {}

\* C10: against any server of which only the last response omits the token,
\* the listing always has yielded a prefix of the records in server order,
\* has sent one request for each response read, each request after the first
\* carrying the token of the response before it in the same query; it ends,
\* and then has yielded every record once, has sent exactly one request for
\* each response and can do nothing more.
C10_Listing ==
    /\ [](/\ Len(lstSent) <= Len(lstServer)
          /\ \A k \in 1..Len(lstSent) : RequestCarries(k)
          /\ Len(lstYielded) <= Len(Flatten(lstServer))
          /\ lstYielded = SubSeq(Flatten(lstServer), 1, Len(lstYielded))
          /\ lstPc = "done" =>
                /\ lstYielded = Flatten(lstServer)
                /\ Len(lstSent) = Len(lstServer)
                /\ ~ENABLED NextList)
    /\ <>(lstPc = "done")

\* C10 witness: a listing of three responses, the second one empty, has
\* ended after yielding four records.
C10_Witness ==
    /\ lstPc = "done"
    /\ Len(lstServer) = 3
    /\ lstServer[2].results = <<>>
    /\ Len(lstYielded) = 4
    /\ Len(lstSent) = 3

\* A request other than those of _login has been sent to the wiki, or a
\* task of one of the two task groups has been created.
WikiOperationIssued ==
    \/ pc \in {"listA", "waitA", "listB", "waitB", "finalize", "evaluate"}
    \/ \E t \in Tasks : task[t] # "none"
    \/ redirects # EmptyDict
    \/ processed_pages_count # 0

\* C11: whenever a listing, a property lookup, a page fetch or an asset
\* fetch has been issued or a task of either phase has been created, _login
\* has returned with a string token, the result "Success" and a session
\* cookie; and once _login has got anything else the run has ended, not
\* with STATUS_OK, without the evaluator, without having created a task or
\* entered a phase.
C11_LoginFirst ==
    /\ WikiOperationIssued =>
          /\ session # None
          /\ Value(session).token
          /\ Value(session).result = "Success"
          /\ Value(session).cookie
    /\ (/\ session # None
        /\ ~(/\ Value(session).token
             /\ Value(session).result = "Success"
             /\ Value(session).cookie))
       => /\ pc = "exited"
          /\ exitVia = "uncaught"
          /\ exitStatus # STATUS_OK
          /\ \A t \in Tasks : task[t] = "none"
          /\ tableAtBarrier = None

\* C11 witness: after a successful login the redirect listing has gone
\* through, a redirect lookup has stored its links and a page fetch is under
\* way.
C11_Witness ==
    /\ session # None
    /\ Value(session).cookie
    /\ redirects # EmptyDict
    /\ \E p \in PageIds : task[PageTask(p)] = "html"

-----------------------------------------------------------------------------
(* Pure functions called on bounded arguments *)

\* The program is at rest but for one call of a function whose argument is
\* one of args, with the global redirects one of tables.
CallInit(args, tables) ==
    /\ pc = "call"
    /\ exitStatus = -1
    /\ exitVia = "none"
    /\ redirects \in tables
    /\ suppressed_exceptions_count = 0
    /\ processed_pages_count = 0
    /\ task = [t \in Tasks |-> "none"]
    /\ job = [d \in DownloadTasks |-> "none"]
    /\ jobReg = [d \in DownloadTasks |-> 0]
    /\ loopInc = None
    /\ last_continue = None
    /\ files = {}
    /\ faults = 0
    /\ tableAtBarrier = None
    /\ pageSaw = [p \in PageIds |-> None]
    /\ session = None
    /\ ListingIdle
    /\ callArg \in {Some(a) : a \in args}
    /\ callRet = None

\* The call returns value.
Returns(value) ==
    /\ pc = "call"
    /\ callRet = None
    /\ callRet' = Some(value)
    /\ UNCHANGED <<runVars, last_continue, lstVars, callArg>>

(* normalize_image_url *)

\* Image URLs: a directory part, a file name, and for a thumbnail the
\* "/<width>px-<name>" MediaWiki appends, then an extension.
ImageUrlArgs ==
    LET stems == {<<"F", "o", "o">>, <<"i", "c", "o", "n">>, <<"a", ".", "b">>}
    IN  [dir : {<<>>, <<"/">>, <<"i", "/">>, <<"/", "i", "/">>},
         stem : stems,
         ext : {<<>>, <<".", "g", "z">>, <<".", "i", "c", "o">>,
                <<".", "p", "n", "g">>, <<".", "j", "p", "e", "g">>},
         thumb : {None} \cup
                 {Some(t) : t \in [width : {<<"8">>, <<"8", "0">>}, stem : stems]}]

ImageUrl(a) ==
    a.dir \o a.stem
          \o (IF a.thumb = None THEN <<>>
              ELSE <<"/">> \o Value(a.thumb).width \o <<"p", "x", "-">>
                           \o Value(a.thumb).stem)
          \o a.ext

InitImageUrl == CallInit(ImageUrlArgs, {EmptyDict})
CallNormalizeImageUrl == Returns(normalize_image_url(ImageUrl(Value(callArg))))
SpecImageUrl == InitImageUrl /\ [][CallNormalizeImageUrl]_vars

\* C12: normalize_image_url gives "Foo.webp" for "Foo/80px-Foo.png" and
\* "icon.ico" for "icon.ico"; in general, a URL whose file name is followed
\* by "/<digits>px-" and the same name again comes back with that infix
\* stripped, wherever in the URL the name stands, and with its extension of
\* three or four characters replaced by ".webp" unless the URL ends in ".ico".
C12_ThumbnailStripped ==
    callRet # None =>
        LET a == Value(callArg)
            url == ImageUrl(a)
            ext == IF a.ext \in {<<".", "p", "n", "g">>, <<".", "j", "p", "e", "g">>}
                   THEN <<".", "w", "e", "b", "p">> ELSE a.ext
        IN  /\ url = <<"F", "o", "o", "/", "8", "0", "p", "x", "-", "F", "o", "o",
                       ".", "p", "n", "g">>
                 => Value(callRet) = <<"F", "o", "o", ".", "w", "e", "b", "p">>
            /\ url = <<"i", "c", "o", "n", ".", "i", "c", "o">>
                 => Value(callRet) = url
            /\ (/\ a.thumb # None
                /\ Value(a.thumb).stem = a.stem
                /\ a.ext # <<>>)
                 => Value(callRet) = a.dir \o a.stem \o ext

(* normalize_file_name *)

MaxTitleLen == 5    \* characters of a name given to normalize_file_name

\* The strings of at most n characters of alphabet.
Strings(alphabet, n) == UNION {[1..k -> alphabet] : k \in 0..n}

\* Names made of the characters normalize_file_name treats specially and
\* one it does not.
FileNameArgs == Strings({"%", "2", "5", "0", " ", "a"}, MaxTitleLen)

InitFileName == CallInit(FileNameArgs, {EmptyDict})
CallNormalizeFileName == Returns(normalize_file_name(Value(callArg)))
SpecFileName == InitFileName /\ [][CallNormalizeFileName]_vars

\* C13: what normalize_file_name returns is left unchanged by
\* normalize_file_name, for every name, those with a percent-encoded percent
\* sign included.
C13_Idempotent ==
    callRet # None => normalize_file_name(Value(callRet)) = Value(callRet)

(* make_url_relative *)

WIKI_URL ==
    <<"h", "t", "t", "p", "s", ":", "/", "/", "w", "i", "k", "i", ".",
      "c", "o", "n", "t", "e", "x", "t", "g", "a", "r", "d", "e", "n", ".",
      "n", "e", "t", "/">>

\* str.removeprefix
RemovePrefix(s, prefix) ==
    IF Len(s) >= Len(prefix) /\ SubSeq(s, 1, Len(prefix)) = prefix
    THEN SubSeq(s, Len(prefix) + 1, Len(s))
    ELSE s

\* The components of a PurePosixPath made from string s: the pieces between
\* slashes, without the empty ones and without ".".
RECURSIVE PathParts(_)
PathParts(s) ==
    IF s = <<>> THEN <<>>
    ELSE LET j == NextSlash(s, 1)
             piece == SubSeq(s, 1, j - 1)
             rest == PathParts(SubSeq(s, j + 1, Len(s)))
         IN  IF piece \in {<<>>, <<".">>} THEN rest ELSE <<piece>> \o rest

\* "/".join(parts)
RECURSIVE JoinParts(_)
JoinParts(parts) ==
    IF parts = <<>> THEN <<>>
    ELSE IF Len(parts) = 1 THEN parts[1]
    ELSE parts[1] \o <<"/">> \o JoinParts(Tail(parts))

\* this_path of make_url_relative for an already resolved this_url, as a
\* string: Path("/" + this_url), "/index" for the root, ".html" appended
\* when the path has no suffix.
NormalizedPath(this_url) ==
    LET parts == PathParts(<<"/">> \o this_url)
        path == <<"/">> \o JoinParts(IF parts = <<>>
                                     THEN << <<"i", "n", "d", "e", "x">> >>
                                     ELSE parts)
    IN  IF PathSuffix(path) = <<>> THEN WithSuffixHtml(path) ELSE path

\* str(this_path.relative_to(base_path, walk_up=True)).removeprefix("../"):
\* one ".." for each component of base_path after the longest prefix of
\* base_path that this_path starts with, then the rest of this_path; "." when
\* nothing is left.
RelativeTo(this_path, base_path) ==
    LET self == PathParts(this_path)
        base == PathParts(base_path)
        Shared(k) == k <= Len(self) /\ SubSeq(self, 1, k) = SubSeq(base, 1, k)
        k == CHOOSE n \in 0..Len(base) :
                 Shared(n) /\ \A m \in (n + 1)..Len(base) : ~Shared(m)
        parts == [i \in 1..(Len(base) - k) |-> <<".", ".">>]
                     \o SubSeq(self, k + 1, Len(self))
        str == IF parts = <<>> THEN <<".">> ELSE JoinParts(parts)
    IN  RemovePrefix(str, <<".", ".", "/">>)

\* A lookup that follows a redirect to a redirect.
ResolvedTwice(table, this_url) ==
    LET once == IF this_url \in DOMAIN table THEN table[this_url] ELSE this_url
    IN  IF once \in DOMAIN table THEN table[once] ELSE once

\* if this_url in redirects: this_url = redirects[this_url]
Resolved(table, this_url) ==
    IF this_url \in DOMAIN table THEN table[this_url] ELSE this_url

\* The key make_url_relative looks up in redirects.
UrlTitle(this_url) ==
    RemovePrefix(normalize_file_name(RemovePrefix(this_url, WIKI_URL)), <<"/">>)

make_url_relative(this_url, base_path) ==
    RelativeTo(NormalizedPath(Resolved(redirects, UrlTitle(this_url))), base_path)

\* The titles the calls are made with, and redirect tables over them: a
\* single redirect, a redirect to a redirect, a redirect to itself, a
\* redirect whose title has a space, a redirect of a subpage.
RelativeUrlArgs ==
    [url : {prefix \o title :
               prefix \in {WIKI_URL, <<"/">>},
               title \in {<<>>, <<"O", "l", "d">>, <<"N", "e", "w">>,
                          <<"M", "i", "d">>, <<"A", "/", "B">>,
                          <<"M", "y", "%", "2", "0", "P">>,
                          <<"a", ".", "p", "n", "g">>}},
     base : {<<"/", "X", ".", "h", "t", "m", "l">>,
             <<"/", "N", "e", "w", ".", "h", "t", "m", "l">>,
             <<"/", "A", "/", "B", ".", "h", "t", "m", "l">>}]

RedirectTables ==
    LET Old == <<"O", "l", "d">>
        New == <<"N", "e", "w">>
        Mid == <<"M", "i", "d">>
    IN  {EmptyDict,
         [k \in {Old} |-> New],
         [k \in {Old, New} |-> IF k = Old THEN New ELSE Mid],
         [k \in {Old, Mid} |-> IF k = Old THEN Old ELSE <<"A", "/", "B">>],
         [k \in {<<"M", "y", "_", "P">>, <<"A", "/", "B">>} |-> Old]}

InitRelative == CallInit(RelativeUrlArgs, RedirectTables)
CallMakeUrlRelative ==
    Returns(make_url_relative(Value(callArg).url, Value(callArg).base))
SpecRelative == InitRelative /\ [][CallMakeUrlRelative]_vars

\* C14: make_url_relative returns, for a URL whose normalised title is a key
\* of redirects, the relativised normalised path of the value stored under
\* that key, which is not looked up again; for any other URL the relativised
\* normalised path of the title itself.  With redirects = {"Old": "New"} and
\* base "/X.html" the result for ".../Old" is "New.html", the result for
\* ".../New".
C14_SingleLookup ==
    callRet # None =>
        LET a == Value(callArg)
            T == UrlTitle(a.url)
            Old == <<"O", "l", "d">>
            New == <<"N", "e", "w">>
        IN  /\ T \in DOMAIN redirects =>
                  Value(callRet) = RelativeTo(NormalizedPath(redirects[T]), a.base)
            /\ T \notin DOMAIN redirects =>
                  Value(callRet) = RelativeTo(NormalizedPath(T), a.base)
            /\ (/\ T \in {Old, New}
                /\ redirects = [k \in {Old} |-> New]
                /\ a.base = <<"/", "X", ".", "h", "t", "m", "l">>)
                  => Value(callRet) = <<"N", "e", "w", ".", "h", "t", "m", "l">>

\* C14 witness: the call was made for ".../Old" with a table that redirects
\* Old to New and New to Mid, and returned the path of New.
C14_Witness ==
    /\ callRet # None
    /\ UrlTitle(Value(callArg).url) = <<"O", "l", "d">>
    /\ <<"N", "e", "w">> \in DOMAIN redirects
    /\ Value(callArg).base = <<"/", "A", "/", "B", ".", "h", "t", "m", "l">>
    /\ Value(callRet) = <<".", ".", "/", "N", "e", "w", ".", "h", "t", "m", "l">>

-----------------------------------------------------------------------------
(* Claims about the two phases *)

\* C15 as claimed: the stylesheet task and the favicon task are not created
\* before the first task group has been left.
C15_StyleInPhaseB ==
    \A t \in {StyleTask, FaviconTask} :
        task[t] # "none" => tableAtBarrier # None

\* C15 amended: the stylesheet task and the favicon task exist from the
\* moment the first task group is entered, run while the redirect pages are
\* listed, and have ended, done or with a contained failure, when that group
\* is left; in the second group they never run.
C15_StyleInPhaseA ==
    \A t \in {StyleTask, FaviconTask} :
        /\ pc \in {"setup", "login"} => task[t] = "none"
        /\ pc \in {"listA", "waitA"} => task[t] # "none"
        /\ tableAtBarrier # None => task[t] \in Finished
        /\ (\E p \in PageIds : PageStarted(p)) => task[t] \in Finished

\* C15 witness: the stylesheet is written and the favicon is being fetched
\* while a redirect lookup is under way and the redirect listing goes on.
C15_Witness ==
    /\ pc = "listA"
    /\ task[StyleTask] = "done"
    /\ task[FaviconTask] = "fetch"
    /\ \E r \in RedirectIds : task[RedirectTask(r)] = "links"

\* async_main has left the second task group in the ordinary way.
PastBarrierB ==
    \/ pc \in {"finalize", "evaluate"}
    \/ pc = "exited" /\ exitVia = "evaluator"

\* C16: when the move of Main_Page.html to index.html is about to be made,
\* and ever after, every page task has ended, every download task a page
\* created has ended, and no recompression is queued or running on a worker
\* thread; from then on no task is created and no task or recompression
\* changes its state.
C16_FinalBarrier ==
    /\ [](PastBarrierB =>
            /\ \A p \in PageIds : task[PageTask(p)] \in Finished
            /\ \A d \in ImageTasks :
                  /\ task[d] \in {"none"} \cup Finished
                  /\ job[d] \in {"none", "finished", "failed"}
                  /\ task[d] = "done" => job[d] \in {"finished", "failed"}
            /\ \A d \in DownloadTasks : jobReg[d] = 0
            /\ loopInc = None)
    /\ [][PastBarrierB => (task' = task /\ job' = job)]_vars

\* C16 witness: the move has been made after two pages were rendered, the
\* image of one recompressed and the recompression of the other's failed.
C16_Witness ==
    /\ pc = "evaluate"
    /\ INDEX_FILE \in files
    /\ \A p \in PageIds : task[PageTask(p)] = "done"
    /\ job[ImageTask(1, 1)] = "finished"
    /\ job[ImageTask(2, 1)] = "failed"
    /\ \A d \in ImageTasks : task[d] = "done"

\* The page task that created download task d.
Owner(d) == PageTask(d[2])

\* C17: the step that completes the count of a failed image, be it the
\* fetch or write of download_image or the recompression on its worker
\* thread, raises suppressed_exceptions_count by exactly one and leaves
\* processed_pages_count alone; a failed recompression does not make the
\* download task fail as well, and no step of an image task or of its
\* recompression changes the state of the page task that created it or of
\* another image task.
C17_ImageFailureCountedOnce ==
    /\ [][\A d \in ImageTasks :
            ((job[d] = "loaded" /\ job'[d] = "failed")
             \/ (/\ loopInc # None
                 /\ Value(loopInc).who = d
                 /\ loopInc' = None))
            => /\ suppressed_exceptions_count' = suppressed_exceptions_count + 1
               /\ processed_pages_count' = processed_pages_count]_vars
    /\ [](\A d \in ImageTasks : job[d] = "failed" => task[d] # "failed")
    /\ [][\A d \in ImageTasks :
            (task'[d] # task[d] /\ task[d] # "none" /\ task'[d] # "cancelled")
            => /\ task'[Owner(d)] = task[Owner(d)]
               /\ \A e \in ImageTasks \ {d} : task'[e] = task[e] /\ job'[e] = job[e]]_vars

-----------------------------------------------------------------------------
(* process_page: "Fix the headers" *)

MaxHeadings == 4    \* heading elements of one document
MAX_HTML_HEADER_LEVEL == 6

\* The heading elements of a parsed document in document order: the level
\* of the tag, h1 to h6, and whether its id is "page-title".
Documents ==
    UNION {[1..n -> [level : 1..MAX_HTML_HEADER_LEVEL, page_title : BOOLEAN]] :
              n \in 0..MaxHeadings}

\* parsed.find_all(name="h1"): the positions of the h1 elements.
RECURSIVE FindAllH1(_, _)
FindAllH1(doc, i) ==
    IF i > Len(doc) THEN <<>>
    ELSE (IF doc[i].level = 1 THEN <<i>> ELSE <<>>) \o FindAllH1(doc, i + 1)

\* A lowering without the test against MAX_HTML_HEADER_LEVEL.
LoweredWithoutCap(header) ==
    IF header.page_title THEN header
    ELSE [header EXCEPT !.level = header.level + 1]

\* The body of "for header in headers".
Lowered(header) ==
    IF header.page_title THEN header
    ELSE IF header.level < MAX_HTML_HEADER_LEVEL
         THEN [header EXCEPT !.level = header.level + 1]
         ELSE header

\* The if / elif / else over len(h1s).
FixHeaders(doc) ==
    LET h1s == FindAllH1(doc, 1)
    IN  IF Len(h1s) = 1 THEN doc
        ELSE IF Len(h1s) = 2
             THEN SubSeq(doc, 1, h1s[2] - 1) \o SubSeq(doc, h1s[2] + 1, Len(doc))
             ELSE [i \in 1..Len(doc) |-> Lowered(doc[i])]

InitHeaders == CallInit(Documents, {EmptyDict})
CallFixHeaders == Returns(FixHeaders(Value(callArg)))
SpecHeaders == InitHeaders /\ [][CallFixHeaders]_vars

\* C18: a document with exactly one h1 comes back unchanged; one with
\* exactly two h1 comes back without the second of them and otherwise
\* unchanged; in one with no or more than two h1 every heading without the
\* id page-title is one level lower, h6 staying h6, and every heading with
\* it is unchanged.  Three h1 and an h2 without page-title come back as
\* three h2 and an h3.
C18_Headings ==
    callRet # None =>
        LET doc == Value(callArg)
            out == Value(callRet)
            ones == {i \in 1..Len(doc) : doc[i].level = 1}
            H(n) == [level |-> n, page_title |-> FALSE]
        IN  /\ Cardinality(ones) = 1 => out = doc
            /\ Cardinality(ones) = 2 =>
                  LET second == CHOOSE i \in ones : \E j \in ones : j < i
                  IN  /\ Len(out) = Len(doc) - 1
                      /\ \A i \in 1..Len(out) :
                            out[i] = IF i < second THEN doc[i] ELSE doc[i + 1]
            /\ Cardinality(ones) \notin {1, 2} =>
                  /\ Len(out) = Len(doc)
                  /\ \A i \in 1..Len(doc) :
                        /\ out[i].page_title = doc[i].page_title
                        /\ doc[i].page_title => out[i].level = doc[i].level
                        /\ (~doc[i].page_title /\ doc[i].level < 6)
                              => out[i].level = doc[i].level + 1
                        /\ (~doc[i].page_title /\ doc[i].level = 6)
                              => out[i].level = 6
            /\ doc = <<H(1), H(1), H(1), H(2)>> => out = <<H(2), H(2), H(2), H(3)>>

\* C18 witness: a document of three h1, one of them the page title, and an
\* h6 has come back with two h2, the page title and the h6.
C18_Witness ==
    /\ callRet # None
    /\ Len(Value(callArg)) = 4
    /\ Cardinality({i \in 1..4 : Value(callArg)[i].level = 1}) = 3
    /\ \E i \in 1..4 : Value(callArg)[i].level = 1 /\ Value(callArg)[i].page_title
    /\ \E i \in 1..4 : Value(callArg)[i].level = 6 /\ ~Value(callArg)[i].page_title
    /\ Cardinality({i \in 1..4 : Value(callRet)[i].level = 2}) = 2
    /\ \E i \in 1..4 : Value(callRet)[i].level = 6

\* The redirect table that the redirect tasks which ran to their end leave
\* behind, whatever the order they ended in: for each its own title, with
\* the last of its links.
TableOf(done) ==
    [k \in {normalize_file_name(RedirectTitle(r)) : r \in done} |->
        LET r == CHOOSE x \in done : normalize_file_name(RedirectTitle(x)) = k
        IN  normalize_file_name(RedirectLinks(r)[Len(RedirectLinks(r))])]

\* C19: no step lowers a counter or takes a key out of the redirect table;
\* when the first task group has been left the table is the one given by
\* which redirect tasks succeeded, and when the second has been left the
\* counters are the ones given by which tasks failed and which pages were
\* rendered, whatever the order the tasks ended in.
C19_OrderIrrelevant ==
    /\ [][/\ suppressed_exceptions_count' >= suppressed_exceptions_count
          /\ processed_pages_count' >= processed_pages_count
          /\ DOMAIN redirects \subseteq DOMAIN redirects']_vars
    /\ [](tableAtBarrier # None =>
            redirects = TableOf({r \in RedirectIds : task[RedirectTask(r)] = "done"}))
    /\ [](pc \in {"finalize", "evaluate"} =>
            /\ processed_pages_count = Cardinality(DonePages)
            /\ suppressed_exceptions_count =
                  Cardinality(FailedTasks) + Cardinality(FailedJobs))

\* Download task d has written its output file.
WroteFile(d) == job[d] # "none"

\* C20: no two download tasks of a run write the same output file, no two
\* page tasks write the same HTML file, and no download task writes a file
\* while a worker thread is recompressing that file for another task, also
\* when several pages show the same image.
C20_NoSharedFiles ==
    /\ [](\A d, e \in DownloadTasks :
            (d # e /\ WroteFile(d) /\ WroteFile(e))
            => DownloadFile(d) # DownloadFile(e))
    /\ [](\A p, q \in PageIds :
            (p # q /\ task[PageTask(p)] = "done" /\ task[PageTask(q)] = "done")
            => PageFile(p) # PageFile(q))
    /\ [][\A e \in DownloadTasks :
            (~WroteFile(e) /\ WroteFile(e)')
            => \A d \in DownloadTasks \ {e} :
                  DownloadFile(d) = DownloadFile(e) => job[d] # "running"]_vars

-----------------------------------------------------------------------------
(* The pages a run writes and the links between them *)

\* page_url of process_page for a page of the given title, as a string.
page_url(title) ==
    WithSuffixHtml(<<"/">> \o JoinParts(PathParts(
        normalize_file_name(RemovePrefix(title, WIKI_URL)))))

\* output_file of process_page, relative to output_path.
OutputFile(title) == Tail(page_url(title))

\* Titles of content pages: the home page, a plain title, one with a space,
\* a page and a subpage of it, and two versions whose titles contain a dot.
HOME_TITLE == <<"M", "a", "i", "n", " ", "P", "a", "g", "e">>

SiteTitles ==
    {HOME_TITLE, <<"P", "2">>, <<"X", " ", "Y">>, <<"A">>, <<"A", "/", "B">>,
     <<"V", "1", ".", "2">>, <<"V", "1", ".", "3">>}

\* A link on page `from` to another page `to` (the wiki renders a link of a
\* page to itself without href), whose href is the title of `to` after the
\* wiki's base URL or after "/", with "_" for a space.
SiteLinks ==
    {l \in [from : SiteTitles, to : SiteTitles, prefix : {WIKI_URL, <<"/">>}] :
        l.from # l.to}

\* The second task group has run for a wiki whose content pages are the
\* home page and the two pages of one link, without redirects and without
\* failures, and async_main is about to move the home page.
InitSite == CallInit(SiteLinks, {EmptyDict})

\* process_page for the three pages: each writes its output file, and the
\* link on page `from` is rewritten by make_url_relative.
RenderSite ==
    /\ pc = "call"
    /\ callRet = None
    /\ LET a == Value(callArg)
       IN  /\ callRet' = Some(make_url_relative(a.prefix \o ReplaceSpaces(a.to),
                                                page_url(a.from)))
           /\ files' = files \cup {OutputFile(HOME_TITLE), OutputFile(a.from),
                                   OutputFile(a.to)}
    /\ pc' = "finalize"
    /\ UNCHANGED <<exitStatus, exitVia, redirects, suppressed_exceptions_count,
                   processed_pages_count, task, job, jobReg, loopInc, faults,
                   tableAtBarrier, session, pageSaw, last_continue, lstVars,
                   callArg>>

SpecSite == InitSite /\ [][RenderSite \/ Finalize]_vars

\* The file a relative URL names when it is resolved against the directory
\* that holds file, both relative to output_path.
RECURSIVE Walk(_, _)
Walk(dir, parts) ==
    IF parts = <<>> THEN dir
    ELSE IF Head(parts) = <<".", ".">>
         THEN Walk(SubSeq(dir, 1, Len(dir) - 1), Tail(parts))
         ELSE Walk(Append(dir, Head(parts)), Tail(parts))

ResolvedAgainst(url, file) ==
    LET dir == SubSeq(PathParts(file), 1, Len(PathParts(file)) - 1)
    IN  JoinParts(Walk(dir, PathParts(url)))

\* The file that holds the rendered page of the given title at the end of
\* the run.
FinalFile(title) ==
    IF OutputFile(title) = MAIN_PAGE_FILE THEN INDEX_FILE ELSE OutputFile(title)

\* C21: at the end of the run the rewritten link on page `from` to page
\* `to`, resolved against the directory of the file of `from`, names the
\* file that holds the rendered page `to`, which exists; and pages of
\* different titles have different files.
C21_LinksNameFiles ==
    pc = "evaluate" =>
        LET a == Value(callArg)
        IN  /\ ResolvedAgainst(Value(callRet), FinalFile(a.from)) = FinalFile(a.to)
            /\ FinalFile(a.to) \in files
            /\ a.from # a.to => FinalFile(a.from) # FinalFile(a.to)

-----------------------------------------------------------------------------
(* The images of a page *)

\* img_src.startswith("/") and not img_src.startswith("//")
SiteRootRelative(img_src) ==
    /\ Len(img_src) >= 1 /\ img_src[1] = "/"
    /\ ~(Len(img_src) >= 2 /\ img_src[2] = "/")

\* An img element whose src is one of the image URLs, on a page at the top
\* of the site or in a subdirectory.
PageImgs ==
    [img : ImageUrlArgs, title : {<<"P", "2">>, <<"A", "/", "B">>}]

InitImages == CallInit(PageImgs, {EmptyDict})

\* The body of "for img in parsed.find_all(name="img")" for one element,
\* the write of the page, and the write of the download_image task that
\* was created, if one was: the new src, the url arguments of the tasks
\* created, and the files written.
RenderImage ==
    /\ pc = "call"
    /\ callRet = None
    /\ LET a == Value(callArg)
           img_src == ImageUrl(a.img)
           rewritten == SiteRootRelative(img_src)
           urls == IF rewritten THEN << LStripSlash(img_src) >> ELSE <<>>
       IN  /\ callRet' =
                 Some([src |-> IF rewritten
                               THEN make_url_relative(normalize_image_url(img_src),
                                                      page_url(a.title))
                               ELSE img_src,
                       urls |-> urls])
           /\ files' = files \cup {OutputFile(a.title)}
                             \cup {normalize_image_url(urls[i]) : i \in 1..Len(urls)}
    /\ UNCHANGED <<pc, exitStatus, exitVia, redirects, suppressed_exceptions_count,
                   processed_pages_count, task, job, jobReg, loopInc, faults,
                   tableAtBarrier, session, pageSaw, last_continue, lstVars,
                   callArg>>

SpecImages == InitImages /\ [][RenderImage]_vars

\* C22: for an img element whose src is site-root-relative exactly one
\* download task is created, and the rewritten src, resolved against the
\* directory of the page's output file, names the file that this task
\* writes.
C22_SrcNamesFile ==
    (callRet # None /\ SiteRootRelative(ImageUrl(Value(callArg).img))) =>
        LET ret == Value(callRet)
        IN  /\ Len(ret.urls) = 1
            /\ ResolvedAgainst(ret.src, OutputFile(Value(callArg).title))
                  = normalize_image_url(ret.urls[1])
            /\ ResolvedAgainst(ret.src, OutputFile(Value(callArg).title)) \in files

====
